---- MODULE Spec2Model ----
(***************************************************************************)
(* Model of the incremental ingestion pipeline (data_pipeline.py) and of   *)
(* the serving layer that starts it in background threads (main.py).       *)
(*                                                                         *)
(* Text is a sequence of one-character strings.  A cell of a DataFrame is  *)
(* a text, or one of the three non-text scalars NaN, PyTrue, PyFalse, each *)
(* written as a one-element sequence holding a reserved token.             *)
(***************************************************************************)
EXTENDS Integers, Sequences, FiniteSets, TLC

\* ------------------------------------------------------------------ bounds
MaxFiles == 2
MaxIncRows == 2
MaxRuns == 1
MaxThreads == 2

\* ------------------------------------------------------------ python text
None == "None"

NaN == <<"NaN">>
PyTrue == <<"True">>
PyFalse == <<"False">>

IsText(val) == val \notin {NaN, PyTrue, PyFalse}

Range(s) == {s[i] : i \in 1..Len(s)}

\* str.upper() on one character
Upper(c) ==
    CASE c = "a" -> "A"
      [] c = "b" -> "B"
      [] c = "n" -> "N"
      [] c = "o" -> "O"
      [] c = "y" -> "Y"
      [] c = "r" -> "R"
      [] c = "u" -> "U"
      [] c = "e" -> "E"
      [] c = "l" -> "L"
      [] c = "s" -> "S"
      [] OTHER -> c

UpperText(s) == [i \in 1..Len(s) |-> Upper(s[i])]

RECURSIVE LStrip(_)
LStrip(s) == IF s # <<>> /\ Head(s) = " " THEN LStrip(Tail(s)) ELSE s

RECURSIVE RStrip(_)
RStrip(s) ==
    IF s # <<>> /\ s[Len(s)] = " " THEN RStrip(SubSeq(s, 1, Len(s) - 1)) ELSE s

\* str.strip()
Strip(s) == RStrip(LStrip(s))

\* str(val)
Str(val) ==
    CASE val = NaN -> <<"n", "a", "n">>
      [] val = PyTrue -> <<"T", "r", "u", "e">>
      [] val = PyFalse -> <<"F", "a", "l", "s", "e">>
      [] OTHER -> val

\* str.split(sep): the pieces of s between the occurrences of sep
RECURSIVE SplitFrom(_, _, _)
SplitFrom(s, sep, cur) ==
    IF s = <<>> THEN <<cur>>
    ELSE IF Head(s) = sep THEN <<cur>> \o SplitFrom(Tail(s), sep, <<>>)
    ELSE SplitFrom(Tail(s), sep, Append(cur, Head(s)))

Split(s, sep) == SplitFrom(s, sep, <<>>)

\* ------------------------------------------------- latest-snapshot selector
\* A file name is a text whose characters are "_", ".", letters, and the
\* tokens "T1".."T3", each standing for twelve digits YYYYMMDDHHmm (T1 the
\* earliest).  "csv" stands for the three letters of the extension.
Stamps == {"T1", "T2", "T3"}

StampValue(tok) == CASE tok = "T1" -> 1 [] tok = "T2" -> 2 [] tok = "T3" -> 3

IndexError == <<"IndexError">>
ValueError == <<"ValueError">>

\* datetime.strptime(text, '%Y%m%d%H%M'): 0 stands for a raised ValueError
strptime(text) ==
    IF Len(text) = 1 /\ text[1] \in Stamps THEN StampValue(text[1]) ELSE 0

\* item.split('_')[1].split(".")[0], then strptime; -1 stands for IndexError
SortKey(item) ==
    LET parts == Split(item, "_")
    IN  IF Len(parts) < 2 THEN -1
        ELSE strptime(Split(parts[2], ".")[1])

\* sorted(..., reverse=True)[0]: the sort is stable, so the first of the
\* items holding the greatest key comes out first
find_latest_csv(file_list) ==
    LET n == Len(file_list)
        bad == {i \in 1..n : SortKey(file_list[i]) <= 0}
    IN  IF bad # {}
        THEN \* the key function raises on the first item it cannot parse
             LET first == CHOOSE i \in bad : \A j \in bad : i <= j
             IN  IF SortKey(file_list[first]) = -1 THEN IndexError ELSE ValueError
        ELSE IF n = 0 THEN IndexError   \* res[0] of an empty list
        ELSE LET best == CHOOSE i \in 1..n :
                            /\ \A j \in 1..n :
                                  SortKey(file_list[j]) <= SortKey(file_list[i])
                            /\ \A j \in 1..(i - 1) :
                                  SortKey(file_list[j]) < SortKey(file_list[i])
             IN  file_list[best]

\* ------------------------------------------------------------ data frames
\* A frame is [columns: sequence of headers, rows: sequence of rows]; a row
\* maps each header of the frame to a cell.  A header is a sequence of
\* tokens; "LF" is a line break inside a header.  A CSV blob has the same
\* shape with every cell a text, plus the flag `exists`.
JobNoHeader == <<"Job", " ", "No.">>
JobNoHeaderLF == <<"Job", "LF", "No.">>
FlagHeader == <<"Hot", " ", "Container", " ", "Flag">>
FlagColumn == <<"hot_container_flag">>
OtherHeader == <<"Ref">>

NoFrame == [columns |-> <<>>, rows |-> <<>>]
NoBlob == [exists |-> FALSE, columns |-> <<>>, rows |-> <<>>]

Column(df, col) == [i \in 1..Len(df.rows) |-> df.rows[i][col]]

Shape(df) == <<Len(df.rows), Len(df.columns)>>

TrueText == <<"T", "r", "u", "e">>
FalseText == <<"F", "a", "l", "s", "e">>

\* pd.read_csv on one column: an empty field is NaN; a column whose filled
\* fields all spell a boolean is read as booleans; anything else stays text
BoolLike(texts) ==
    /\ \E i \in 1..Len(texts) : texts[i] # <<>>
    /\ \A i \in 1..Len(texts) : texts[i] \in {<<>>, TrueText, FalseText}

ParseField(text, boolLike) ==
    IF text = <<>> THEN NaN
    ELSE IF boolLike /\ text = TrueText THEN PyTrue
    ELSE IF boolLike /\ text = FalseText THEN PyFalse
    ELSE text

\* read_file: download the blob's text and parse it as CSV
read_file(blob) ==
    [columns |-> blob.columns,
     rows |-> [i \in 1..Len(blob.rows) |->
                 [c \in Range(blob.columns) |->
                     ParseField(blob.rows[i][c], BoolLike(Column(blob, c)))]]]

\* DataFrame.to_csv on one cell: NaN is written as an empty field
FormatField(val) == IF val = NaN THEN <<>> ELSE Str(val)

\* the text upload_df_to_blob sends: dataframe.to_csv(index=False)
to_csv(df) ==
    [exists |-> TRUE,
     columns |-> df.columns,
     rows |-> [i \in 1..Len(df.rows) |->
                 [c \in Range(df.columns) |-> FormatField(df.rows[i][c])]]]

normalize_string(val) ==
    IF Strip(Str(val)) = <<"(", ")">> THEN <<>> ELSE UpperText(Strip(Str(val)))

\* select_dtypes(include='object'): the columns holding text (a column of
\* NaN only is float64, a column of booleans only is bool)
IsObjectColumn(df, col) == \E i \in 1..Len(df.rows) : IsText(df.rows[i][col])

preprocessed_df(df) ==
    [columns |-> df.columns,
     rows |-> [i \in 1..Len(df.rows) |->
                 [c \in Range(df.columns) |->
                     IF IsObjectColumn(df, c)
                     THEN normalize_string(df.rows[i][c])
                     ELSE df.rows[i][c]]]]

\* DataFrame.rename(columns=mapping): headers without an entry pass through
RenameHeader(mapping, h) == IF h \in DOMAIN mapping THEN mapping[h] ELSE h

Rename(df, mapping) ==
    LET new == [i \in 1..Len(df.columns) |-> RenameHeader(mapping, df.columns[i])]
        old(h) == df.columns[CHOOSE i \in 1..Len(new) : new[i] = h]
    IN  [columns |-> new,
         rows |-> [i \in 1..Len(df.rows) |->
                     [h \in Range(new) |-> df.rows[i][old(h)]]]]

\* lines 208-211: a line break inside a header becomes a space
FoldHeader(h) == [i \in 1..Len(h) |-> IF h[i] = "LF" THEN " " ELSE h[i]]

FoldLineBreaks(df) ==
    Rename(df, [h \in {c \in Range(df.columns) : "LF" \in Range(c)} |-> FoldHeader(h)])

\* lines 220-223: Series.replace on the flag columns present, as pandas
\* applies it when the column selection is a view of the frame
ReplaceFlag(val) ==
    CASE val \in {<<"Y">>, <<"Y", "E", "S">>} -> PyTrue
      [] val \in {<<"N">>, <<"N", "O">>} -> PyFalse
      [] OTHER -> val

bool_cols == {FlagColumn}

MapFlags(df) ==
    [columns |-> df.columns,
     rows |-> [i \in 1..Len(df.rows) |->
                 [c \in Range(df.columns) |->
                     IF c \in bool_cols THEN ReplaceFlag(df.rows[i][c])
                     ELSE df.rows[i][c]]]]

\* ------------------------------------------------------------------ merge
\* curr_df[key].unique()
unique_jobs(df, key) == Range(Column(df, key))

\* the mask without its negation
mask_keep_inverted(row, key, jobs) == row[key] \in jobs

\* line 233: ~prev_df[key].isin(unique_jobs_curr)
mask_keep(row, key, jobs) == row[key] \notin jobs

\* the previous frame taken whole, the mask left unused
prev_df_unfiltered(prev, key, jobs) == prev

\* line 234: prev_df[mask_keep].copy()
prev_df_cleaned(prev, key, jobs) ==
    [columns |-> prev.columns,
     rows |-> SelectSeq(prev.rows, LAMBDA row : mask_keep(row, key, jobs))]

\* pd.concat([a, b], ignore_index=True): a's rows, then b's; the columns are
\* a's followed by those only b has; a cell of a column a row lacks is NaN
Pad(row, cols) == [c \in cols |-> IF c \in DOMAIN row THEN row[c] ELSE NaN]

concat(a, b) ==
    LET extra == SelectSeq(b.columns, LAMBDA c : c \notin Range(a.columns))
        cols == a.columns \o extra
    IN  [columns |-> cols,
         rows |-> [i \in 1..(Len(a.rows) + Len(b.rows)) |->
                     IF i <= Len(a.rows) THEN Pad(a.rows[i], Range(cols))
                     ELSE Pad(b.rows[i - Len(a.rows)], Range(cols))]]

\* line 240 enabled: drop_duplicates(subset=[key], keep='last')
drop_duplicates_last(df, key) ==
    LET idx == {i \in 1..Len(df.rows) :
                  \A j \in (i + 1)..Len(df.rows) : df.rows[j][key] # df.rows[i][key]}
        Pick[k \in 0..Len(df.rows)] ==
            IF k = 0 THEN <<>>
            ELSE IF k \in idx THEN Append(Pick[k - 1], df.rows[k]) ELSE Pick[k - 1]
    IN  [columns |-> df.columns, rows |-> Pick[Len(df.rows)]]

Merge_drop_duplicates(prev, curr, key) ==
    drop_duplicates_last(
        concat(prev_df_cleaned(prev, key, unique_jobs(curr, key)), curr), key)

\* the two frames handed to concat in the other order
Merge_increment_first(prev, curr, key) ==
    concat(curr, prev_df_cleaned(prev, key, unique_jobs(curr, key)))

\* lines 232-237
Merge(prev, curr, key) ==
    concat(prev_df_cleaned(prev, key, unique_jobs(curr, key)), curr)

\* ------------------------------------------------------------------ state
VARIABLES
    pc,               \* run_ingestion_pipeline: the line about to execute
    env,              \* the five os.getenv values of the current run
    udf_cols,         \* the module-level rename table (two of its entries)
    latest_csv,
    initial_shape,
    curr_df,
    prev_df,
    final_df,
    outcome,          \* what the last call returned or raised
    dest,             \* the destination blob PRE_FILE_NAME
    dest_before,      \* dest when the current run was called
    io_log,           \* the object-store calls the current run has made
    runs,             \* calls of run_ingestion_pipeline so far
    file_list,        \* selector: the argument of find_latest_csv
    res,              \* selector: what find_latest_csv gave
    pipeline_status,  \* main.py: the process-wide status record
    thread_pc,        \* main.py: each background thread's line
    thread_result,    \* main.py: each thread's local `result` or exception
    observed,         \* the body of the last GET /pipeline_status response
    response          \* the status code of the last POST response

pipe_vars == <<pc, env, udf_cols, latest_csv, initial_shape, curr_df,
               prev_df, final_df, outcome, dest, dest_before, io_log, runs>>
sel_vars == <<file_list, res>>
serve_vars == <<pipeline_status, thread_pc, thread_result, observed, response>>
vars == <<pipe_vars, sel_vars, serve_vars>>

SeqsUpTo(S, n) == UNION {[1..k -> S] : k \in 0..n}

\* ------------------------------------------------------------------ inputs
EnvNames == {"conn_str", "dnld_con_name", "upld_con_name", "key_col_original", "pre_pblob"}

\* what os.getenv may give: None when unset, possibly an empty string
Envs ==
    [conn_str : {None, "conn"},
     dnld_con_name : {None, "raw"},
     upld_con_name : {None, "prod"},
     key_col_original : {None, "", "job_no"},
     pre_pblob : {None, "master.csv"}]

NoEnv == [n \in EnvNames |-> None]

\* the names list_csv_blobs may give (those ending in 'csv'); the third has an
\* underscore inside its prefix
ListingNames ==
    {<<"x", "_", "T1", ".", "csv">>,
     <<"x", "_", "T2", ".", "csv">>,
     <<"x", "_", "y", "_", "T3", ".", "csv">>}

RawKeys == {<<" ", "a">>, <<"A">>, <<"b">>}
RawFlags == {<<"y">>, <<"(", ")">>}

CsvRow(h, k, f) == (h :> k) @@ (FlagHeader :> f)

\* the CSV text of an incremental file
IncrementBlobs ==
    UNION {
      {[exists |-> TRUE, columns |-> <<h, FlagHeader>>, rows |-> rows] :
         rows \in SeqsUpTo({CsvRow(h, k, f) : k \in RawKeys, f \in RawFlags}, MaxIncRows)}
      : h \in {JobNoHeader, JobNoHeaderLF, OtherHeader}}

MasterRow(k, f) == (<<"job_no">> :> k) @@ (FlagColumn :> f)

\* what the destination may hold before the first run: nothing, a file
\* published under another key column, or a file published under job_no
InitialMasters ==
    {NoBlob,
     [exists |-> TRUE, columns |-> <<OtherHeader, FlagColumn>>,
      rows |-> <<(OtherHeader :> <<"A">>) @@ (FlagColumn :> TrueText)>>],
     [exists |-> TRUE, columns |-> <<<<"job_no">>, FlagColumn>>, rows |-> <<>>],
     [exists |-> TRUE, columns |-> <<<<"job_no">>, FlagColumn>>,
      rows |-> <<MasterRow(<<"A">>, TrueText), MasterRow(<<"C">>, <<>>)>>],
     [exists |-> TRUE, columns |-> <<<<"job_no">>, FlagColumn>>,
      rows |-> <<MasterRow(<<"C">>, FalseText), MasterRow(<<"B">>, TrueText),
                 MasterRow(<<" ", "a">>, <<"X">>), MasterRow(<<"B">>, <<>>)>>]}

\* ---------------------------------------------------------------- outcomes
NoOutcome ==
    [kind |-> "none", error |-> None, status |-> None,
     total_records_in_final_file |-> 0, new_records_shape |-> <<0, 0>>,
     previous_records_shape |-> <<0, 0>>, key_column_used |-> None,
     target_blob |-> None]

Raised(e) == [NoOutcome EXCEPT !.kind = "raise", !.error = e]

Truthy(v) == v \notin {None, ""}

\* the check with PRE_FILE_NAME left out of the list
EnvComplete_without_blob(e) == \A n \in EnvNames \ {"pre_pblob"} : Truthy(e[n])

\* line 191: all([...])
EnvComplete(e) == \A n \in EnvNames : Truthy(e[n])

KeyHeader(e) == <<e.key_col_original>>

\* -------------------------------------------------- run_ingestion_pipeline
\* lines 178-189: a call begins and reads its environment
LoadEnv ==
    /\ pc = "idle"
    /\ runs < MaxRuns
    /\ \E e \in Envs : env' = e
    /\ pc' = "l191"
    /\ runs' = runs + 1
    /\ latest_csv' = <<>>
    /\ curr_df' = NoFrame /\ prev_df' = NoFrame /\ final_df' = NoFrame
    /\ initial_shape' = <<0, 0>>
    /\ outcome' = NoOutcome
    /\ dest_before' = dest
    /\ io_log' = <<>>
    /\ UNCHANGED <<udf_cols, dest, sel_vars, serve_vars>>

\* lines 191-195
CheckEnv ==
    /\ pc = "l191"
    /\ IF EnvComplete(env)
       THEN /\ udf_cols' = [udf_cols EXCEPT ![JobNoHeader] = KeyHeader(env)]
            /\ pc' = "l198"
            /\ UNCHANGED outcome
       ELSE /\ outcome' = Raised("ValueError: environment")
            /\ pc' = "idle"
            /\ UNCHANGED udf_cols
    /\ UNCHANGED <<env, latest_csv, initial_shape, curr_df, prev_df,
                   final_df, dest, dest_before, io_log, runs,
                   sel_vars, serve_vars>>

\* lines 198-200: list_csv_blobs, then find_latest_csv
Discover ==
    /\ pc = "l198"
    /\ io_log' = Append(io_log, "list")
    /\ \/ /\ outcome' = Raised("StorageError: list")
          /\ pc' = "idle"
          /\ UNCHANGED latest_csv
       \/ \E csv_files \in SeqsUpTo(ListingNames, MaxFiles) :
            LET found == find_latest_csv(csv_files)
            IN  IF found \in {IndexError, ValueError}
                THEN /\ outcome' = Raised(found[1])
                     /\ pc' = "idle"
                     /\ UNCHANGED latest_csv
                ELSE /\ latest_csv' = found
                     /\ pc' = "l202"
                     /\ UNCHANGED outcome
    /\ UNCHANGED <<env, udf_cols, initial_shape, curr_df, prev_df,
                   final_df, dest, dest_before, runs,
                   sel_vars, serve_vars>>

\* lines 208-223: fold header line breaks, rename by udf_cols, normalize the
\* text columns, map the flag columns
Normalized(w_df, mapping) ==
    MapFlags(preprocessed_df(Rename(FoldLineBreaks(w_df), mapping)))

\* the normalized increment staged into the destination before the merge
ReadIncrement_staging ==
    /\ pc = "l202"
    /\ io_log' = Append(io_log, "read")
    /\ \/ /\ outcome' = Raised("StorageError: read")
          /\ pc' = "idle"
          /\ UNCHANGED <<initial_shape, curr_df, dest>>
       \/ \E blob \in IncrementBlobs :
            /\ initial_shape' = Shape(read_file(blob))
            /\ curr_df' = Normalized(read_file(blob), udf_cols)
            /\ dest' = to_csv(Normalized(read_file(blob), udf_cols))
            /\ pc' = "l229"
            /\ UNCHANGED outcome
    /\ UNCHANGED <<env, udf_cols, latest_csv, prev_df, final_df,
                   dest_before, runs, sel_vars, serve_vars>>

\* lines 202-223: read the latest incremental file and normalize it; the raw
\* frame w_df is not read again after line 214
ReadIncrement ==
    /\ pc = "l202"
    /\ io_log' = Append(io_log, "read")
    /\ \/ /\ outcome' = Raised("StorageError: read")
          /\ pc' = "idle"
          /\ UNCHANGED <<initial_shape, curr_df>>
       \/ \E blob \in IncrementBlobs :
            /\ initial_shape' = Shape(read_file(blob))
            /\ curr_df' = Normalized(read_file(blob), udf_cols)
            /\ pc' = "l229"
            /\ UNCHANGED outcome
    /\ UNCHANGED <<env, udf_cols, latest_csv, prev_df, final_df,
                   dest, dest_before, runs, sel_vars, serve_vars>>

\* line 229
ReadMaster ==
    /\ pc = "l229"
    /\ io_log' = Append(io_log, "read")
    /\ \/ /\ outcome' = Raised("StorageError: read")
          /\ pc' = "idle"
          /\ UNCHANGED prev_df
       \/ /\ dest.exists
          /\ prev_df' = read_file(dest)
          /\ pc' = "l232"
          /\ UNCHANGED outcome
    /\ UNCHANGED <<env, udf_cols, latest_csv, initial_shape, curr_df,
                   final_df, dest, dest_before, runs,
                   sel_vars, serve_vars>>

\* lines 232-237: a frame without the key column raises KeyError
MergeFrames ==
    /\ pc = "l232"
    /\ IF KeyHeader(env) \in Range(curr_df.columns) /\ KeyHeader(env) \in Range(prev_df.columns)
       THEN /\ final_df' = Merge(prev_df, curr_df, KeyHeader(env))
            /\ pc' = "l244"
            /\ UNCHANGED outcome
       ELSE /\ outcome' = Raised("KeyError")
            /\ pc' = "idle"
            /\ UNCHANGED final_df
    /\ UNCHANGED <<env, udf_cols, latest_csv, initial_shape, curr_df,
                   prev_df, dest, dest_before, io_log, runs,
                   sel_vars, serve_vars>>

\* lines 243-249: upload_df_to_blob, overwrite=True
Upload ==
    /\ pc = "l244"
    /\ io_log' = Append(io_log, "write")
    /\ \/ /\ outcome' = Raised("StorageError: write")
          /\ pc' = "idle"
          /\ UNCHANGED dest
       \/ /\ dest' = to_csv(final_df)
          /\ pc' = "l254"
          /\ UNCHANGED outcome
    /\ UNCHANGED <<env, udf_cols, latest_csv, initial_shape, curr_df,
                   prev_df, final_df, dest_before, runs,
                   sel_vars, serve_vars>>

\* lines 251-261
Return ==
    /\ pc = "l254"
    /\ outcome' = [kind |-> "return", error |-> None, status |-> "SUCCESS",
                   total_records_in_final_file |-> Len(final_df.rows),
                   new_records_shape |-> initial_shape,
                   previous_records_shape |-> Shape(prev_df),
                   key_column_used |-> env.key_col_original,
                   target_blob |-> env.pre_pblob]
    /\ pc' = "idle"
    /\ UNCHANGED <<env, udf_cols, latest_csv, initial_shape, curr_df,
                   prev_df, final_df, dest, dest_before, io_log, runs,
                   sel_vars, serve_vars>>

PipeInit ==
    /\ pc = "idle"
    /\ env = NoEnv
    /\ udf_cols = (JobNoHeader :> <<"key_col_placeholder">>) @@ (FlagHeader :> FlagColumn)
    /\ latest_csv = <<>>
    /\ curr_df = NoFrame /\ prev_df = NoFrame /\ final_df = NoFrame
    /\ initial_shape = <<0, 0>>
    /\ outcome = NoOutcome
    /\ io_log = <<>>
    /\ runs = 0

\* --------------------------------------------------------- selector alone
FileNames ==
    ListingNames \cup
    {<<"y", "_", "T3", ".", "csv">>,
     <<"_", "T2", ".", "csv">>,
     <<"x", "_", "T3", "_", "T1", ".", "csv">>,
     <<"x", ".", "csv">>}

NotCalled == <<"not called">>

SelectInitial ==
    /\ file_list \in SeqsUpTo(FileNames, MaxFiles + 1)
    /\ res = NotCalled

\* a call of find_latest_csv on the drawn list
Select ==
    /\ res = NotCalled
    /\ res' = find_latest_csv(file_list)
    /\ UNCHANGED <<file_list, pipe_vars, serve_vars>>

\* ------------------------------------------------------------ serving layer
Threads == 1..MaxThreads

NoResult == [kind |-> "none"]

\* main.py lines 62-68; `traceback` stands for the key line 95 adds; a time
\* is 0 for None and 1 for a string time.strftime gave
StatusInitial ==
    [status |-> "IDLE", last_run_start |-> 0, last_run_end |-> 0,
     result |-> NoResult, error |-> NoResult, traceback |-> NoResult]

ServeInitial ==
    /\ pipeline_status = StatusInitial
    /\ thread_pc = [t \in Threads |-> "new"]
    /\ thread_result = [t \in Threads |-> NoResult]
    /\ observed = StatusInitial
    /\ response = 0

InFlight(t) == thread_pc[t] \notin {"new", "done"}

\* threading.Thread(target=start_pipeline_thread).start()
StartThread ==
    \E t \in Threads :
        /\ thread_pc[t] = "new"
        /\ \A u \in Threads : u < t => thread_pc[u] # "new"
        /\ thread_pc' = [thread_pc EXCEPT ![t] = "l77"]

\* main.py lines 177-199
trigger_ingestion ==
    /\ IF pipeline_status.status = "RUNNING"
       THEN /\ response' = 429
            /\ UNCHANGED thread_pc
       ELSE /\ StartThread
            /\ response' = 200
    /\ UNCHANGED <<pipeline_status, thread_result, observed, pipe_vars, sel_vars>>

\* main.py lines 137-174: the download or the blob upload may fail; after
\* both succeed the thread is started whatever the status is.  The uploaded
\* blob reaches a run as part of the listing it draws.
upload_csv ==
    /\ \/ /\ response' = 400
          /\ UNCHANGED thread_pc
       \/ /\ response' = 500
          /\ UNCHANGED thread_pc
       \/ /\ StartThread
          /\ response' = 200
    /\ UNCHANGED <<pipeline_status, thread_result, observed, pipe_vars, sel_vars>>

\* main.py lines 201-204
get_pipeline_status ==
    /\ observed' = pipeline_status
    /\ UNCHANGED <<pipeline_status, thread_pc, thread_result, response, pipe_vars, sel_vars>>

\* one statement of start_pipeline_thread: a store into the status record
Store(t, at, field, value, next) ==
    /\ thread_pc[t] = at
    /\ pipeline_status' = [pipeline_status EXCEPT ![field] = value]
    /\ thread_pc' = [thread_pc EXCEPT ![t] = next]
    /\ UNCHANGED <<thread_result, observed, response, pipe_vars, sel_vars>>

\* lines 77-80
SetRunning(t) == Store(t, "l77", "status", "RUNNING", "l78")
SetStart(t) == Store(t, "l78", "last_run_start", 1, "l79")
ClearError(t) == Store(t, "l79", "error", NoResult, "l80")
ClearResult(t) == Store(t, "l80", "result", NoResult, "l84")

\* line 84: the call of run_ingestion_pipeline returns its outcome record.
\* The steps of the call are the actions of Spec; the status record sees only
\* whether it returned or raised.
PipelineReturns(t) ==
    /\ thread_pc[t] = "l84"
    /\ thread_result' = [thread_result EXCEPT ![t] = [kind |-> "return"]]
    /\ thread_pc' = [thread_pc EXCEPT ![t] = "l87"]
    /\ UNCHANGED <<pipeline_status, observed, response, pipe_vars, sel_vars>>

\* line 84, 91: the call raises and the handler binds the exception
PipelineRaises(t) ==
    /\ thread_pc[t] = "l84"
    /\ thread_result' = [thread_result EXCEPT ![t] = [kind |-> "raise"]]
    /\ thread_pc' = [thread_pc EXCEPT ![t] = "l93"]
    /\ UNCHANGED <<pipeline_status, observed, response, pipe_vars, sel_vars>>

\* lines 87-88
SetSuccess(t) == Store(t, "l87", "status", "SUCCESS", "l88")
SetResult(t) == Store(t, "l88", "result", thread_result[t], "l99")

\* the handler that records the error and leaves the status as it is
SetFailed_keeps_status(t) == Store(t, "l93", "status", pipeline_status.status, "l94")

\* lines 93-95
SetFailed(t) == Store(t, "l93", "status", "FAILED", "l94")
SetError(t) == Store(t, "l94", "error", thread_result[t], "l95")
SetTraceback(t) == Store(t, "l95", "traceback", thread_result[t], "l99")

\* line 99
SetEnd(t) == Store(t, "l99", "last_run_end", 1, "done")

start_pipeline_thread(t) ==
    \/ SetRunning(t) \/ SetStart(t) \/ ClearError(t) \/ ClearResult(t)
    \/ PipelineReturns(t) \/ PipelineRaises(t)
    \/ SetSuccess(t) \/ SetResult(t)
    \/ SetFailed(t) \/ SetError(t) \/ SetTraceback(t)
    \/ SetEnd(t)

\* --------------------------------------------------------- specifications
Init ==
    /\ PipeInit
    /\ dest \in InitialMasters
    /\ dest_before = dest
    /\ file_list = <<>> /\ res = NotCalled
    /\ ServeInitial

Next ==
    \/ LoadEnv
    \/ CheckEnv
    \/ Discover
    \/ ReadIncrement
    \/ ReadMaster
    \/ MergeFrames
    \/ Upload
    \/ Return

Spec == Init /\ [][Next]_vars

SelectInit ==
    /\ SelectInitial
    /\ PipeInit /\ dest = NoBlob /\ dest_before = NoBlob
    /\ ServeInitial

SelectNext == Select

SelectSpec == SelectInit /\ [][SelectNext]_vars

ServeInit ==
    /\ ServeInitial
    /\ PipeInit /\ dest = NoBlob /\ dest_before = NoBlob
    /\ file_list = <<>> /\ res = NotCalled

ServeNext ==
    \/ trigger_ingestion
    \/ upload_csv
    \/ get_pipeline_status
    \/ \E t \in Threads : start_pipeline_thread(t)

ServeSpec == ServeInit /\ [][ServeNext]_vars

\* Liveness: the operating system schedules every started thread, and the
\* call at line 84 ends, by returning or by raising.  A status poll changes
\* nothing a thread or a request reads, so it is left out here.
LiveNext ==
    \/ trigger_ingestion
    \/ upload_csv
    \/ \E t \in Threads : start_pipeline_thread(t)

ServeLive ==
    /\ ServeInit
    /\ [][LiveNext]_vars
    /\ \A t \in Threads : WF_vars(start_pipeline_thread(t))

\* ------------------------------------------------------------ properties
MergeDone ==
    \/ pc \in {"l244", "l254"}
    \/ outcome.kind = "return"
    \/ outcome.error = "StorageError: write"

Succeeded == pc = "idle" /\ outcome.kind = "return"

Failed == pc = "idle" /\ outcome.kind = "raise"

KeyOf(row) == row[KeyHeader(env)]

IncrementKeys == {KeyOf(curr_df.rows[i]) : i \in 1..Len(curr_df.rows)}

RowsWithKey(rows, k) == SelectSeq(rows, LAMBDA row : KeyOf(row) = k)

\* C1: after a successful run, for every key k of the increment, the rows of
\* the published merged table whose key is k are exactly the increment's
\* rows for k; no master row with a key of the increment survives.
C1_ReplacementIsTotal ==
    Succeeded =>
        /\ dest = to_csv(final_df)
        /\ \A k \in IncrementKeys :
              RowsWithKey(final_df.rows, k) = RowsWithKey(curr_df.rows, k)

\* a successful run whose increment superseded a master row
C1_Witness ==
    /\ Succeeded
    /\ \E i \in 1..Len(prev_df.rows) : KeyOf(prev_df.rows[i]) \in IncrementKeys

\* C2: at most one execution of run_ingestion_pipeline is in progress at any
\* time, whatever the interleaving of requests and background threads.
C2_AtMostOneRun == Cardinality({t \in Threads : thread_pc[t] = "l84"}) <= 1

Count(log, op) == Cardinality({i \in 1..Len(log) : log[i] = op})

\* C3: a run writes the destination at most once and only as its last
\* store call, after the listing and both reads; a run that raised left the
\* destination as it was when the run began, and a run cannot succeed
\* without the key column in both frames.
C3_SingleLastWrite ==
    /\ Count(io_log, "write") <= 1
    /\ Count(io_log, "write") = 1 => io_log = <<"list", "read", "read", "write">>
    /\ dest # dest_before => (pc = "l254" \/ Succeeded)
    /\ Failed => dest = dest_before
    /\ Succeeded =>
          /\ io_log = <<"list", "read", "read", "write">>
          /\ KeyHeader(env) \in Range(curr_df.columns)
          /\ KeyHeader(env) \in Range(prev_df.columns)

\* a run that raised KeyError after both reads, the destination untouched
C3_Witness ==
    /\ Failed
    /\ outcome.error = "KeyError"
    /\ io_log = <<"list", "read", "read">>
    /\ dest.exists /\ dest = dest_before

\* C4: every increment row is in the merged result with the multiplicity and
\* the relative order it has in the increment, duplicates of a key included.
C4_IncrementPreserved ==
    MergeDone =>
        SelectSeq(final_df.rows, LAMBDA row : row \in Range(curr_df.rows))
            = curr_df.rows

\* a merge of an increment holding two rows of one key
C4_Witness ==
    /\ MergeDone
    /\ \E i, j \in 1..Len(curr_df.rows) :
          i < j /\ KeyOf(curr_df.rows[i]) = KeyOf(curr_df.rows[j])

Retained ==
    SelectSeq(prev_df.rows,
              LAMBDA row : \A i \in 1..Len(curr_df.rows) : KeyOf(curr_df.rows[i]) # KeyOf(row))

C6_RowCountLaw ==
    Succeeded =>
        /\ outcome.total_records_in_final_file = Len(final_df.rows)
        /\ outcome.total_records_in_final_file =
              Cardinality({i \in 1..Len(prev_df.rows) :
                             KeyOf(prev_df.rows[i]) \notin IncrementKeys})
              + Len(curr_df.rows)

\* a successful run that dropped master rows and kept others
C6_Witness ==
    /\ Succeeded
    /\ curr_df.rows # <<>>
    /\ \E i, j \in 1..Len(prev_df.rows) :
          /\ KeyOf(prev_df.rows[i]) \in IncrementKeys
          /\ KeyOf(prev_df.rows[j]) \notin IncrementKeys

\* <anything>_<YYYYMMDDHHmm>.csv
Conventional(name) ==
    /\ Len(name) >= 4
    /\ name[Len(name) - 3] = "_"
    /\ name[Len(name) - 2] \in Stamps
    /\ name[Len(name) - 1] = "."
    /\ name[Len(name)] = "csv"

EmbeddedStamp(name) == StampValue(name[Len(name) - 2])

\* C7: for every non-empty list of names of the form
\* <anything>_<YYYYMMDDHHmm>.csv, underscores in the prefix allowed,
\* find_latest_csv returns a name whose embedded timestamp is the greatest.
C7_SelectsLatest ==
    ( /\ res # NotCalled
      /\ file_list # <<>>
      /\ \A i \in 1..Len(file_list) : Conventional(file_list[i]) )
    => /\ res \in Range(file_list)
       /\ \A i \in 1..Len(file_list) :
             EmbeddedStamp(file_list[i]) <= EmbeddedStamp(res)

Terminal ==
    /\ pipeline_status.status \in {"SUCCESS", "FAILED"}
    /\ pipeline_status.last_run_end # 0

\* C8: every started run leaves RUNNING: while a run is in flight the status
\* eventually reads SUCCESS or FAILED with last_run_end set, and the status
\* is never RUNNING when no run is in flight.
C8_RunLeavesRunning ==
    /\ []((\A t \in Threads : ~InFlight(t)) => pipeline_status.status # "RUNNING")
    /\ \A t \in Threads : InFlight(t) ~> Terminal

\* a run whose pipeline call raised has ended and the status reads FAILED
C8_Witness ==
    \E t \in Threads :
        /\ thread_pc[t] = "done"
        /\ thread_result[t].kind = "raise"
        /\ \A u \in Threads : ~InFlight(u)
        /\ pipeline_status.status = "FAILED"
        /\ pipeline_status.last_run_end # 0

\* C9: when one of the five required parameters is absent, the run fails
\* with the configuration error and has made no object-store call.
ParameterAbsent == \E n \in EnvNames : env[n] = None

C9_FailsBeforeIO ==
    (runs > 0 /\ ParameterAbsent) =>
        /\ io_log = <<>>
        /\ dest = dest_before
        /\ pc \in {"l191", "idle"}
        /\ pc = "idle" => outcome = Raised("ValueError: environment")

\* a run with only the destination object name absent has failed
C9_Witness ==
    /\ Failed
    /\ env.pre_pblob = None
    /\ \A n \in EnvNames \ {"pre_pblob"} : Truthy(env[n])
    /\ outcome.error = "ValueError: environment"

\* C10: whatever GET /pipeline_status returns is consistent: with status
\* SUCCESS the result is an outcome record and error is null; with status
\* FAILED the error is set and result is null.
C10_StatusConsistent ==
    /\ observed.status = "SUCCESS" =>
          (observed.result.kind = "return" /\ observed.error = NoResult)
    /\ observed.status = "FAILED" =>
          (observed.error.kind = "raise" /\ observed.result = NoResult)

====
